---- MODULE Spec2Model ----
(***************************************************************************)
(* Post-processing of the Kuang2008 linear model: the diagnostics          *)
(* (post/lib/Diagnostics.py), the reconstruction (post/lib/Reconstruct.py),*)
(* the mode selection (post/lib/Plot.py, analysis/qt_no_rad_comp.py) and   *)
(* the wavenumber selection (post/kuang_post/make_all.py,                  *)
(* analysis/Phase_comp.py).                                                *)
(*                                                                         *)
(* Arrays are functions over 0-based index ranges, nested one level per    *)
(* axis, as numpy indexes them.  Complex numbers are pairs <<re, im>> of   *)
(* integers and arithmetic is exact.  The outcome of a call is a record    *)
(* whose status is "ok" (with the returned array in value) or the name of  *)
(* the Python exception the call raises.                                   *)
(***************************************************************************)
EXTENDS Integers, FiniteSets, TLC

VARIABLES pc,        \* which call sequence the program is in
          optrs,     \* linear operators, shape (n, n, Nk)
          wnum,      \* wavenumber axis, shape (Nk,)
          growth,    \* outcome of modal_growth_rate / the growth_rate argument
          speed,     \* outcome of phase_speed / the phase_speed argument
          sel,       \* max_idx, max_σ, max_c of the mode selection
          target_k,  \* target wavenumber of the wavenumber selection
          kidx,      \* selected / passed wavenumber index
          state,     \* modal state, shape (Nv, Nk, Nt)
          state_new, \* outcome of convert_state / state_J of make_all
          basis,     \* vertical basis, shape (Nv_ext, Nz)
          invmat,    \* inverse transform, shape (Nx, Nk)
          prof,      \* outcome of reconstruct / profile of make_all
          xaxis,     \* x, horizontal coordinate of the inverse transform
          anim       \* the fields handed to Plot.plot_animation

vars == <<pc, optrs, wnum, growth, speed, sel, target_k, kidx,
          state, state_new, basis, invmat, prof, xaxis, anim>>

(***************************************************************************)
(* Bounds of the checked instances.                                        *)
(***************************************************************************)
MaxNk == 2

MaxModes == 2

MaxNt == 3

MaxVars == 7

MaxVext == 2

MaxNz == 2

MaxNx == 2

(***************************************************************************)
(* numpy arrays and Python exceptions.                                     *)
(***************************************************************************)
Idx(n) == 0 .. (n - 1)

Size(a) == Cardinality(DOMAIN a)

NoResult == [status |-> "none"]

Ok(v) == [status |-> "ok", value |-> v]

Raise(e) == [status |-> e]

\* a[i] as numpy resolves an integer index on an axis of length n: negative
\* indices count from the end, anything outside [-n, n) raises IndexError.
\* The result is the 0-based position, or -1 for IndexError.
NormIndex(i, n) ==
    IF 0 <= i /\ i < n THEN i
    ELSE IF -n <= i /\ i < 0 THEN i + n
    ELSE -1

(***************************************************************************)
(* Complex arithmetic.                                                     *)
(***************************************************************************)
Re(z) == z[1]

Im(z) == z[2]

CAdd(a, b) == <<a[1] + b[1], a[2] + b[2]>>

CSub(a, b) == <<a[1] - b[1], a[2] - b[2]>>

CMul(a, b) == <<a[1] * b[1] - a[2] * b[2], a[1] * b[2] + a[2] * b[1]>>

\* a real number seen as a complex one
CReal(r) == <<r, 0>>

(***************************************************************************)
(* IEEE division as phase_speed uses it: a finite quotient is the reduced  *)
(* fraction <<"fin", num, den>>; x / 0 is inf, -inf or nan, never an error.*)
(***************************************************************************)
Abs(x) == IF x < 0 THEN -x ELSE x

RECURSIVE Gcd(_, _)
Gcd(a, b) == IF b = 0 THEN a ELSE Gcd(b, a % b)

Frac(n, d) ==
    LET g == Gcd(Abs(n), Abs(d))
        s == IF d < 0 THEN -1 ELSE 1
    IN  <<"fin", (s * n) \div g, (s * d) \div g>>

FloatDiv(x, y) ==
    IF y # 0 THEN Frac(x, y)
    ELSE IF x > 0 THEN <<"inf", 1, 0>>
    ELSE IF x < 0 THEN <<"-inf", -1, 0>>
    ELSE <<"nan", 0, 0>>

\* f * (n / d) for a float f and a positive finite ratio n / d
FloatScale(f, n, d) ==
    IF f[1] = "fin" THEN Frac(f[2] * n, f[3] * d) ELSE f

(***************************************************************************)
(* Diagnostics.modal_growth_rate and Diagnostics.phase_speed.              *)
(***************************************************************************)
Nv == 6

length_scale == 4320000

time_scale == 86400

\* optrs[ :, :, j ]
Slice(op, j) == [a \in DOMAIN op |-> [b \in DOMAIN op[a] |-> op[a][b][j]]]

\* M.T
Transpose(M) == [a \in DOMAIN M |-> [b \in DOMAIN M |-> M[b][a]]]

\* np.linalg.eig( M )[0] on the diagonal matrices the operators are drawn
\* from: LAPACK returns the diagonal, in order.
eig(M) == [i \in DOMAIN M |-> M[i][i]]

\* np.real( eigvals )
SigmaImagSlip(eigvals) == [i \in DOMAIN eigvals |-> Im(eigvals[i])]

Sigma(eigvals) == [i \in DOMAIN eigvals |-> Re(eigvals[i])]

\* -np.imag( eigvals ) / k[ j ] * ( length_scale / time_scale )
PhaseOf(eigvals, kj) ==
    [i \in DOMAIN eigvals |->
        FloatScale(FloatDiv(-Im(eigvals[i]), kj), length_scale, time_scale)]

\* arr[ :, j ] = col: numpy broadcasts a length-1 col over the rows and
\* raises ValueError for any other length that differs from the row count.
CanAssignColumn(arr, col) == Size(col) = Size(arr) \/ Size(col) = 1

AssignColumn(arr, j, col) ==
    [i \in DOMAIN arr |->
        [arr[i] EXCEPT ![j] = IF Size(col) = 1 THEN col[0] ELSE col[i]]]

\* np.zeros( ( rows, cols ) ) with the given zero element
Zeros(rows, cols, zero) == [i \in Idx(rows) |-> [j \in Idx(cols) |-> zero]]

\* the loop of modal_growth_rate from column j on
RECURSIVE GrowthLoop(_, _, _, _)
GrowthLoop(op, Nk, g, j) ==
    IF j >= Nk THEN Ok(g)
    ELSE LET sigma == Sigma(eig(Transpose(Slice(op, j))))
         IN  IF CanAssignColumn(g, sigma)
             THEN GrowthLoop(op, Nk, AssignColumn(g, j, sigma), j + 1)
             ELSE Raise("ValueError")

modal_growth_rate(op, k) == GrowthLoop(op, Size(k), Zeros(Nv, Size(k), 0), 0)

\* the loop of phase_speed from column j on
RECURSIVE SpeedLoop(_, _, _, _)
SpeedLoop(op, k, s, j) ==
    IF j >= Size(k) THEN Ok(s)
    ELSE LET c == PhaseOf(eig(Transpose(Slice(op, j))), k[j])
         IN  IF CanAssignColumn(s, c)
             THEN SpeedLoop(op, k, AssignColumn(s, j, c), j + 1)
             ELSE Raise("ValueError")

phase_speed(op, k) == SpeedLoop(op, k, Zeros(Nv, Size(k), Frac(0, 1)), 0)

(***************************************************************************)
(* The operators and wavenumber axes the diagnostics are run on: n x n x Nk*)
(* operators whose slices are diagonal, slice j having the entries         *)
(* (a - i) + b (i - 2) sqrt(-1) at position i for coefficients a, b of its *)
(* own, and wavenumbers that include zero.                                 *)
(***************************************************************************)
OpDims == {1, 2, Nv}

ReCoefs == {0, 1}

ImCoefs == {-1, 0, 1}

KVals == {0, 1, 2}

DiagOperator(n, Nk, a, b) ==
    [r \in Idx(n) |-> [s \in Idx(n) |-> [j \in Idx(Nk) |->
        IF r = s THEN <<a[j] - r, b[j] * (r - 2)>> ELSE <<0, 0>>]]]

Idle == "idle"

InitDiag ==
    /\ pc = "diag"
    /\ \E n \in OpDims : \E Nk \in 1 .. MaxNk :
         \E a \in [Idx(Nk) -> ReCoefs] : \E b \in [Idx(Nk) -> ImCoefs] :
            optrs = DiagOperator(n, Nk, a, b)
    /\ \E Nk \in 1 .. MaxNk : wnum \in [Idx(Nk) -> KVals]
    /\ Size(wnum) = Size(optrs[0][0])
    /\ growth = NoResult
    /\ speed = NoResult
    /\ sel = Idle /\ target_k = Idle /\ kidx = Idle /\ state = Idle
    /\ state_new = Idle /\ basis = Idle /\ invmat = Idle /\ prof = Idle
    /\ xaxis = Idle /\ anim = Idle

CallModalGrowthRate ==
    /\ pc = "diag"
    /\ growth = NoResult
    /\ growth' = modal_growth_rate(optrs, wnum)
    /\ UNCHANGED <<pc, optrs, wnum, speed, sel, target_k, kidx,
                   state, state_new, basis, invmat, prof, xaxis, anim>>

CallPhaseSpeed ==
    /\ pc = "diag"
    /\ speed = NoResult
    /\ speed' = phase_speed(optrs, wnum)
    /\ UNCHANGED <<pc, optrs, wnum, growth, sel, target_k, kidx,
                   state, state_new, basis, invmat, prof, xaxis, anim>>

NextDiag == CallModalGrowthRate \/ CallPhaseSpeed

SpecDiag == InitDiag /\ [][NextDiag]_vars

OpDim == Size(optrs)

HasZeroWavenumber == \E j \in DOMAIN wnum : wnum[j] = 0

\* C1: whenever some wavenumber entry is 0, phase_speed fails (with a
\* DomainError) and returns no array, so no array with an infinity or a NaN
\* (stated for the 6 x 6 operators of the model).
C1_ZeroWavenumberFails ==
    (pc = "diag" /\ speed # NoResult /\ OpDim = Nv /\ HasZeroWavenumber) =>
        speed.status # "ok"

\* growth has shape (rows, Nk), and column j holds the real parts of the
\* diagonal of operator slice j, in order
GrowthOfSlices(rows) ==
    /\ growth.status = "ok"
    /\ DOMAIN growth.value = Idx(rows)
    /\ \A i \in Idx(rows) :
         /\ DOMAIN growth.value[i] = DOMAIN wnum
         /\ \A j \in DOMAIN wnum :
              /\ growth.value[i][j] = Re(optrs[i][i][j])
              /\ Im(optrs[i][i][j]) = 0 => CReal(growth.value[i][j]) = optrs[i][i][j]

\* C10 as stated: for every n x n x Nk operator modal_growth_rate returns n
\* growth rates per wavenumber column, column j from slice j alone.
C10_AnyDimension ==
    (pc = "diag" /\ growth # NoResult) => GrowthOfSlices(OpDim)

\* C10, amended: for every Nv x Nv x Nk operator with Nv = 6, the size the
\* function fixes, the result has shape (6, Nk), column j holding the real
\* parts of the eigenvalues of slice j alone (its diagonal entries when the
\* slice is real diagonal).
C10_SixBySix ==
    (pc = "diag" /\ growth # NoResult /\ OpDim = Nv) => GrowthOfSlices(Nv)

\* a 6 x 6 x 2 operator with two different real diagonal slices, diagnosed
C10_Witness ==
    /\ pc = "diag" /\ growth # NoResult /\ OpDim = Nv /\ Size(wnum) = 2
    /\ \A i \in Idx(Nv) : \A j \in DOMAIN wnum : Im(optrs[i][i][j]) = 0
    /\ optrs[0][0][0] # optrs[0][0][1]
    /\ growth.status = "ok"

(***************************************************************************)
(* Mode selection: Plot.plot_diagnostics and qt_no_rad_comp.main.          *)
(***************************************************************************)
\* the scan of np.argmax over a[0 .. n-1] from position i on, best being the
\* position of the largest entry so far: only a strictly larger entry
\* replaces it, so the first occurrence of the maximum wins
RECURSIVE ArgmaxScan(_, _, _, _)
ArgmaxScan(a, n, i, best) ==
    IF i >= n THEN best
    ELSE ArgmaxScan(a, n, i + 1, IF a[i] > a[best] THEN i ELSE best)

\* a[ :, j ]
Column(a, j) == [i \in DOMAIN a |-> a[i][j]]

\* np.argmax( a, axis=0 )
ArgmaxLastWins(a) ==
    [j \in DOMAIN a[0] |->
        CHOOSE i \in DOMAIN a :
            /\ \A r \in DOMAIN a : a[r][j] <= a[i][j]
            /\ \A r \in DOMAIN a : a[r][j] = a[i][j] => r <= i]

ArgmaxAxis0(a) == [j \in DOMAIN a[0] |-> ArgmaxScan(Column(a, j), Size(a), 1, 0)]

\* np.take_along_axis( a, idx[ None, : ], axis=0 )[0]
TakeAlongAxis0(a, idx) == [j \in DOMAIN idx |-> a[idx[j]][j]]

\* Plot.plot_diagnostics, up to the plotting
plot_diagnostics(growth_rate, phase_speed_) ==
    LET max_idx == ArgmaxAxis0(growth_rate)
    IN  [by |-> "plot_diagnostics",
         max_idx |-> max_idx,
         max_sigma |-> TakeAlongAxis0(growth_rate, max_idx),
         max_c |-> TakeAlongAxis0(phase_speed_, max_idx)]

\* qt_no_rad_comp.main, the maximum growth rate of one case
qt_max_growth(sigma) ==
    LET max_idxs == ArgmaxAxis0(sigma)
    IN  [by |-> "qt_no_rad_comp",
         max_idx |-> max_idxs,
         max_sigma |-> TakeAlongAxis0(sigma, max_idxs)]

GrowthVals == {1, 2, 3, 5}

\* a phase-speed array of the given shape with a different entry at every
\* position
SpeedArray(rows, cols) ==
    [i \in Idx(rows) |-> [j \in Idx(cols) |-> Frac(-(10 * i + j + 1), 1)]]

InitSelect ==
    /\ pc = "select"
    /\ \E rows \in 1 .. MaxModes : \E cols \in 1 .. MaxNk :
         /\ \E g \in [Idx(rows) -> [Idx(cols) -> GrowthVals]] : growth = Ok(g)
         /\ speed = Ok(SpeedArray(rows, cols))
    /\ sel = NoResult
    /\ optrs = Idle /\ wnum = Idle
    /\ target_k = Idle /\ kidx = Idle /\ state = Idle
    /\ state_new = Idle /\ basis = Idle /\ invmat = Idle /\ prof = Idle
    /\ xaxis = Idle /\ anim = Idle

PlotDiagnostics ==
    /\ pc = "select"
    /\ sel = NoResult
    /\ sel' = plot_diagnostics(growth.value, speed.value)
    /\ UNCHANGED <<pc, optrs, wnum, growth, speed, target_k, kidx,
                   state, state_new, basis, invmat, prof, xaxis, anim>>

CompareGrowth ==
    /\ pc = "select"
    /\ sel = NoResult
    /\ sel' = qt_max_growth(growth.value)
    /\ UNCHANGED <<pc, optrs, wnum, growth, speed, target_k, kidx,
                   state, state_new, basis, invmat, prof, xaxis, anim>>

NextSelect == PlotDiagnostics \/ CompareGrowth

SpecSelect == InitSelect /\ [][NextSelect]_vars

\* the growth-rate array [[1,5],[3,2]]
ExampleGrowth == (0 :> (0 :> 1 @@ 1 :> 5)) @@ (1 :> (0 :> 3 @@ 1 :> 2))

\* C8: in every wavenumber column the selected mode is the lowest index
\* holding the column maximum of the growth rate, the reported growth rate
\* and phase speed are the entries at that position, and [[1,5],[3,2]] gives
\* the indices [1,0] and the maxima [3,5].
C8_LowestArgmax ==
    (pc = "select" /\ sel # NoResult) =>
        LET g == growth.value
        IN  /\ DOMAIN sel.max_idx = DOMAIN g[0]
            /\ \A j \in DOMAIN g[0] :
                 LET i == sel.max_idx[j]
                 IN  /\ i \in DOMAIN g
                     /\ \A r \in DOMAIN g : g[r][j] <= g[i][j]
                     /\ \A r \in DOMAIN g : r < i => g[r][j] < g[i][j]
                     /\ sel.max_sigma[j] = g[i][j]
                     /\ sel.by = "plot_diagnostics" => sel.max_c[j] = speed.value[i][j]
            /\ g = ExampleGrowth =>
                 /\ sel.max_idx = (0 :> 1 @@ 1 :> 0)
                 /\ sel.max_sigma = (0 :> 3 @@ 1 :> 5)

\* a column whose maximum occurs twice has been selected from, with its
\* phase speed
C8_Witness ==
    /\ pc = "select" /\ sel # NoResult /\ sel.by = "plot_diagnostics"
    /\ Size(growth.value) = 2 /\ Size(growth.value[0]) = 2
    /\ growth.value[0][0] = 5 /\ growth.value[1][0] = 5
    /\ growth.value[0][1] = 2 /\ growth.value[1][1] = 3

(***************************************************************************)
(* Wavenumber selection: make_all.main and Phase_comp.main.  Wavenumbers   *)
(* are in a fixed-point unit; the scripts fix the target at                *)
(* 2 pi 4320 / 8640, here any value of TargetVals.                         *)
(***************************************************************************)
\* the scan of np.argmin over a[0 .. n-1] from position i on
RECURSIVE ArgminScan(_, _, _, _)
ArgminScan(a, n, i, best) ==
    IF i >= n THEN best
    ELSE ArgminScan(a, n, i + 1, IF a[i] < a[best] THEN i ELSE best)

\* np.argmin( a ): ValueError on an empty array
ArgminLastWins(a) ==
    IF Size(a) = 0 THEN Raise("ValueError")
    ELSE Ok(CHOOSE i \in DOMAIN a :
            /\ \A r \in DOMAIN a : a[i] <= a[r]
            /\ \A r \in DOMAIN a : a[r] = a[i] => r <= i)

Argmin(a) ==
    IF Size(a) = 0 THEN Raise("ValueError")
    ELSE Ok(ArgminScan(a, Size(a), 1, 0))

\* make_all.main: np.argmin( np.abs( target_k - wnum ) )
select_kidx(target, w) == Argmin([j \in DOMAIN w |-> Abs(target - w[j])])

\* Phase_comp.main: np.argmin( np.abs( wnum - target_k ) ).astype( int )
select_kidx_phase(target, w) == Argmin([j \in DOMAIN w |-> Abs(w[j] - target)])

WVals == {-1, 0, 1, 2, 3}

TargetVals == {0, 1, 2}

InitKidx ==
    /\ pc = "kidx"
    /\ \E Nk \in 0 .. MaxNk + 1 : wnum \in [Idx(Nk) -> WVals]
    /\ target_k \in TargetVals
    /\ kidx = NoResult
    /\ optrs = Idle /\ growth = Idle /\ speed = Idle /\ sel = Idle
    /\ state = Idle /\ state_new = Idle /\ basis = Idle /\ invmat = Idle
    /\ prof = Idle
    /\ xaxis = Idle /\ anim = Idle

SelectWavenumber ==
    /\ pc = "kidx"
    /\ kidx = NoResult
    /\ kidx' = select_kidx(target_k, wnum)
    /\ UNCHANGED <<pc, optrs, wnum, growth, speed, sel, target_k,
                   state, state_new, basis, invmat, prof, xaxis, anim>>

SelectWavenumberPhase ==
    /\ pc = "kidx"
    /\ kidx = NoResult
    /\ kidx' = select_kidx_phase(target_k, wnum)
    /\ UNCHANGED <<pc, optrs, wnum, growth, speed, sel, target_k,
                   state, state_new, basis, invmat, prof, xaxis, anim>>

NextKidx == SelectWavenumber \/ SelectWavenumberPhase

SpecKidx == InitKidx /\ [][NextKidx]_vars

\* C9: on a non-empty wavenumber axis the selected index is in [0, Nk),
\* minimizes |wnum[kidx] - target|, and no lower index is as close.
C9_LowestArgmin ==
    (pc = "kidx" /\ kidx # NoResult /\ Size(wnum) > 0) =>
        /\ kidx.status = "ok"
        /\ 0 <= kidx.value /\ kidx.value < Size(wnum)
        /\ \A j \in DOMAIN wnum :
             Abs(wnum[kidx.value] - target_k) <= Abs(wnum[j] - target_k)
        /\ \A j \in DOMAIN wnum :
             j < kidx.value =>
                 Abs(wnum[j] - target_k) > Abs(wnum[kidx.value] - target_k)

\* two wavenumbers on either side of the target, equally close, the nearer
\* ones not first: the lower of the two has been selected
C9_Witness ==
    /\ pc = "kidx" /\ kidx # NoResult /\ Size(wnum) = 3 /\ target_k = 1
    /\ wnum[0] = 3 /\ wnum[1] = 2 /\ wnum[2] = 0
    /\ kidx.status = "ok" /\ kidx.value = 1

(***************************************************************************)
(* Diagnostics.convert_state and the copy of it in make_all.main.  State   *)
(* values are complex numbers in a fixed-point unit, drawn as multiples of *)
(* 20 units so that the products with 1.5 and 0.7 are exact.  The arrays   *)
(* are complex64, as make_all loads them, so the final astype leaves the   *)
(* values as they are.                                                     *)
(***************************************************************************)
GammaNum == 7

GammaDen == 10

HeatNum == 3

HeatDen == 2

Kept == 4

\* (num / den) * z for a real factor num / den
CScaleRat(num, den, z) == <<(num * z[1]) \div den, (num * z[2]) \div den>>

\* elementwise operations on (Nk, Nt) arrays
AddArr(A, B) == [k \in DOMAIN A |-> [t \in DOMAIN A[k] |-> CAdd(A[k][t], B[k][t])]]

SubArr(A, B) == [k \in DOMAIN A |-> [t \in DOMAIN A[k] |-> CSub(A[k][t], B[k][t])]]

ScaleArr(num, den, A) == [k \in DOMAIN A |-> [t \in DOMAIN A[k] |-> CScaleRat(num, den, A[k][t])]]

\* L = state[ -1, :, : ]
LowHeating(st) == st[NormIndex(-1, Size(st))]

\* U with state[ 1 ] taken for state[ 2 ]
UpperHeatingOffByOne(st) ==
    AddArr(LowHeating(st),
         ScaleArr(GammaNum, GammaDen,
                  SubArr(st[NormIndex(-2, Size(st))],
                       ScaleArr(HeatNum, HeatDen, st[NormIndex(1, Size(st))]))))

\* U = L + 0.7*( state[ -2, :, : ] - 1.5*state[ 2, :, : ] )
UpperHeating(st) ==
    AddArr(LowHeating(st),
         ScaleArr(GammaNum, GammaDen,
                  SubArr(st[NormIndex(-2, Size(st))],
                       ScaleArr(HeatNum, HeatDen, st[NormIndex(2, Size(st))]))))

\* J1 = ( L + U ), J2 = ( L - U )
HeatingJ1(st) == AddArr(LowHeating(st), UpperHeating(st))

HeatingJ2(st) == SubArr(LowHeating(st), UpperHeating(st))

\* state[ -1 ], state[ -2 ] and state[ 2 ] all exist
CanDeriveHeating(st) ==
    /\ NormIndex(-1, Size(st)) >= 0
    /\ NormIndex(-2, Size(st)) >= 0
    /\ NormIndex(2, Size(st)) >= 0

\* a[ :n ]
Prefix(a, n) == [v \in Idx(IF n < Size(a) THEN n ELSE Size(a)) |-> a[v]]

\* np.concatenate( [ head, J1[ None ], J2[ None ] ], axis=0 )
Concat2(head, J1, J2) ==
    [v \in Idx(Size(head) + 2) |->
        IF v < Size(head) THEN head[v]
        ELSE IF v = Size(head) THEN J1 ELSE J2]

\* Diagnostics.convert_state
convert_state(st) ==
    IF ~CanDeriveHeating(st) THEN Raise("IndexError")
    ELSE Ok(Concat2(Prefix(st, Kept), HeatingJ1(st), HeatingJ2(st)))

\* make_all.main: state_J
make_all_state_J(st) ==
    IF ~CanDeriveHeating(st) THEN Raise("IndexError")
    ELSE Ok(Concat2(st, HeatingJ1(st), HeatingJ2(st)))

StateVals == {<<20, 0>>, <<0, 20>>, <<-20, 40>>}

\* variable v has the value a[v] (1 + k + 2 t) at wavenumber k and time t
ModalState(nv, Nk, Nt, a) ==
    [v \in Idx(nv) |-> [k \in Idx(Nk) |-> [t \in Idx(Nt) |->
        <<a[v][1] * (1 + k + 2 * t), a[v][2] * (1 + k + 2 * t)>>]]]

InitConvert ==
    /\ pc = "convert"
    /\ \E nv \in 1 .. MaxVars : \E Nk \in 1 .. MaxNk : \E Nt \in 1 .. MaxNt :
         \E a \in [Idx(nv) -> StateVals] : state = ModalState(nv, Nk, Nt, a)
    /\ state_new = NoResult
    /\ optrs = Idle /\ wnum = Idle /\ growth = Idle /\ speed = Idle
    /\ sel = Idle /\ target_k = Idle /\ kidx = Idle
    /\ basis = Idle /\ invmat = Idle /\ prof = Idle
    /\ xaxis = Idle /\ anim = Idle

CallConvertState ==
    /\ pc = "convert"
    /\ pc' = "convert_state"
    /\ state_new' = convert_state(state)
    /\ UNCHANGED <<optrs, wnum, growth, speed, sel, target_k, kidx,
                   state, basis, invmat, prof, xaxis, anim>>

MakeAllStateJ ==
    /\ pc = "convert"
    /\ pc' = "state_J"
    /\ state_new' = make_all_state_J(state)
    /\ UNCHANGED <<optrs, wnum, growth, speed, sel, target_k, kidx,
                   state, basis, invmat, prof, xaxis, anim>>

NextConvert == CallConvertState \/ MakeAllStateJ

SpecConvert == InitConvert /\ [][NextConvert]_vars

\* out is the Nv variables of st, unchanged and in order, then J1, then J2
IsAugmented(out, st) ==
    /\ DOMAIN out = Idx(Size(st) + 2)
    /\ \A v \in DOMAIN st : out[v] = st[v]
    /\ out[Size(st)] = HeatingJ1(st)
    /\ out[Size(st) + 1] = HeatingJ2(st)

\* C2: for every input of Nv >= 6 variables convert_state returns Nv + 2
\* entries: the Nv input variables unchanged and in order, then J1, then J2,
\* the Nk and Nt axes unchanged.
C2_AllVariablesKept ==
    (pc = "convert_state" /\ Size(state) >= 6) =>
        /\ state_new.status = "ok"
        /\ IsAugmented(state_new.value, state)

\* C3: for every input with fewer than 6 variables convert_state fails
\* (with a ShapeError) and returns no augmented state.
C3_FewVariablesFail ==
    (pc = "convert_state" /\ Size(state) < 6) => state_new.status # "ok"

\* the two entries convert_state appends
AppendedJ1(out) == out[Size(out) - 2]

AppendedJ2(out) == out[Size(out) - 1]

\* 20 J1 = 40 low + 14 state[4] - 21 state[2] and 20 J2 = -(14 state[4] -
\* 21 state[2]) in the component c: J1 = low + upper and J2 = low - upper
\* with low = state[5], upper = low + 0.7 (state[4] - 1.5 state[2])
ClosedForm(j1, j2, s2, s4, s5, c) ==
    /\ 20 * j1[c] = 40 * s5[c] + 14 * s4[c] - 21 * s2[c]
    /\ 20 * j2[c] = 21 * s2[c] - 14 * s4[c]

\* C11: for every 6-variable input, at each (wavenumber, time) position J1
\* = low + upper and J2 = low - upper with low = state[5] and upper = low +
\* 0.7 (state[4] - 1.5 state[2]); replacing any of the variables 0, 1, 3 by
\* another one changes neither.
C11_ClosedForm ==
    (pc = "convert_state" /\ Size(state) = 6) =>
        /\ state_new.status = "ok"
        /\ \A k \in DOMAIN state[0] : \A t \in DOMAIN state[0][k] : \A c \in {1, 2} :
             ClosedForm(AppendedJ1(state_new.value)[k][t],
                        AppendedJ2(state_new.value)[k][t],
                        state[2][k][t], state[4][k][t], state[5][k][t], c)
        /\ \A v \in {0, 1, 3} : \A w \in DOMAIN state :
             LET other == convert_state([state EXCEPT ![v] = state[w]])
             IN  /\ other.status = "ok"
                 /\ AppendedJ1(other.value) = AppendedJ1(state_new.value)
                 /\ AppendedJ2(other.value) = AppendedJ2(state_new.value)

\* a 6-variable state whose variables 2, 4 and 5 have three different
\* values, over two wavenumbers and two times, converted
C11_Witness ==
    /\ pc = "convert_state" /\ Size(state) = 6
    /\ Size(state[0]) = 2 /\ Size(state[0][0]) = 2
    /\ state[2][0][0] = <<0, 20>> /\ state[4][0][0] = <<-20, 40>>
    /\ state[5][0][0] = <<20, 0>> /\ state[3][0][0] # state[2][0][0]
    /\ state_new.status = "ok"
    /\ AppendedJ1(state_new.value)[0][0] = <<26, 7>>
    /\ AppendedJ1(state_new.value)[1][1] = <<104, 28>>
    /\ AppendedJ2(state_new.value)[0][0] = <<14, -7>>

(***************************************************************************)
(* Reconstruct.reconstruct.  A call works on the caller's arrays, so its   *)
(* result is the returned outcome together with the contents of the three  *)
(* arrays after the call.                                                  *)
(***************************************************************************)
Max(a, b) == IF a >= b THEN a ELSE b

\* invmat[ :, c ][ None, :, None ]
FourierBasisOf(inv, c) == [x \in DOMAIN inv |-> inv[x][c]]

\* state[ :, c, : ][ :, None, : ]
StateKidx(st, c) == [v \in DOMAIN st |-> st[v][c]]

\* FourierBasis * state_kidx, broadcast to ( Nv_ext, Nx, Nt )
StatePc(fb, sk) ==
    [v \in DOMAIN sk |-> [x \in DOMAIN fb |-> [t \in DOMAIN sk[v] |->
        CMul(fb[x], sk[v][t])]]]

\* np.einsum( "vz,vxt->vzxt", b, p ): the label v has one size, or size 1 in
\* one operand, which is then broadcast; any other pair of sizes is a
\* ValueError
EinsumSizesAgree(b, p) == Size(b) = Size(p) \/ Size(b) = 1 \/ Size(p) = 1

\* the sum over the variables 0 .. w of b[w,z] * p[w,x,t]
RECURSIVE SumOverV(_, _, _, _, _, _)
SumOverV(b, p, w, z, x, t) ==
    IF w < 0 THEN <<0, 0>>
    ELSE CAdd(SumOverV(b, p, w - 1, z, x, t), CMul(CReal(b[w][z]), p[w][x][t]))

\* "vz,vxt->zxt" repeated for every v: the variable axis contracted
EinsumSummed(b, p) ==
    [v \in Idx(Max(Size(b), Size(p))) |-> [z \in DOMAIN b[0] |->
        [x \in DOMAIN p[0] |-> [t \in DOMAIN p[0][0] |->
            IF Size(b) = Size(p) THEN SumOverV(b, p, Size(b) - 1, z, x, t)
            ELSE CMul(CReal(b[IF Size(b) = 1 THEN 0 ELSE v][z]),
                      p[IF Size(p) = 1 THEN 0 ELSE v][x][t])]]]]

Einsum(b, p) ==
    [v \in Idx(Max(Size(b), Size(p))) |-> [z \in DOMAIN b[0] |->
        [x \in DOMAIN p[0] |-> [t \in DOMAIN p[0][0] |->
            LET bv == IF Size(b) = 1 THEN 0 ELSE v
                pv == IF Size(p) = 1 THEN 0 ELSE v
            IN  CMul(CReal(b[bv][z]), p[pv][x][t])]]]]

\* the arrays after a call that writes the product back into state
ReconstructInPlace(c, st, b, inv) ==
    LET ci == NormIndex(c, Size(inv[0]))
        cs == NormIndex(c, Size(st[0]))
    IN  IF ci < 0 \/ cs < 0
        THEN [prof |-> Raise("IndexError"), state |-> st, basis |-> b, invmat |-> inv]
        ELSE LET state_pc == StatePc(FourierBasisOf(inv, ci), StateKidx(st, cs))
             IN  [prof |-> IF EinsumSizesAgree(b, state_pc)
                           THEN Ok(Einsum(b, state_pc))
                           ELSE Raise("ValueError"),
                  state |-> [v \in DOMAIN st |->
                                [st[v] EXCEPT ![cs] = state_pc[v][0]]],
                  basis |-> b, invmat |-> inv]

reconstruct(c, st, b, inv) ==
    LET ci == NormIndex(c, Size(inv[0]))
        cs == NormIndex(c, Size(st[0]))
    IN  IF ci < 0 \/ cs < 0
        THEN [prof |-> Raise("IndexError"), state |-> st, basis |-> b, invmat |-> inv]
        ELSE LET state_pc == StatePc(FourierBasisOf(inv, ci), StateKidx(st, cs))
             IN  [prof |-> IF EinsumSizesAgree(b, state_pc)
                           THEN Ok(Einsum(b, state_pc))
                           ELSE Raise("ValueError"),
                  state |-> st, basis |-> b, invmat |-> inv]

(***************************************************************************)
(* The arrays reconstruct is called on: a state whose entries are all      *)
(* different (real when im = 0, the time series 1, 2, 3 for one variable,  *)
(* one wavenumber and three times), and a basis and an inverse transform   *)
(* that are all ones or have entries that are all different.               *)
(***************************************************************************)
CodedState(nv, Nk, Nt, im) ==
    [v \in Idx(nv) |-> [k \in Idx(Nk) |-> [t \in Idx(Nt) |->
        <<1 + t + Nt * k + Nt * Nk * v, im * (1 + v + k)>>]]]

CodedBasis(nv, Nz, ones) ==
    [v \in Idx(nv) |-> [z \in Idx(Nz) |-> IF ones THEN 1 ELSE 2 + z + Nz * v]]

CodedInverse(Nx, Nk, ones) ==
    [x \in Idx(Nx) |-> [k \in Idx(Nk) |->
        IF ones THEN <<1, 0>> ELSE <<1 + x + Nx * k, 1 + k - x>>]]

InitRecon ==
    /\ pc = "recon"
    /\ \E Nk \in 1 .. MaxNk :
         /\ \E nv \in 1 .. MaxVext : \E Nt \in 1 .. MaxNt : \E im \in {0, 1} :
              state = CodedState(nv, Nk, Nt, im)
         /\ \E Nx \in 1 .. MaxNx : \E ones \in BOOLEAN :
              invmat = CodedInverse(Nx, Nk, ones)
    /\ \E nv \in 1 .. MaxVext : \E Nz \in 1 .. MaxNz : \E ones \in BOOLEAN :
         basis = CodedBasis(nv, Nz, ones)
    /\ kidx = 0
    /\ prof = NoResult
    /\ optrs = Idle /\ wnum = Idle /\ growth = Idle /\ speed = Idle
    /\ sel = Idle /\ target_k = Idle /\ state_new = Idle
    /\ xaxis = Idle /\ anim = Idle

CallReconstruct ==
    /\ pc \in {"recon", "reconstructed"}
    /\ \E c \in -(MaxNk + 1) .. (MaxNk + 1) :
         LET r == reconstruct(c, state, basis, invmat)
         IN  /\ kidx' = c
             /\ prof' = r.prof
             /\ state' = r.state
             /\ basis' = r.basis
             /\ invmat' = r.invmat
    /\ pc' = "reconstructed"
    /\ UNCHANGED <<optrs, wnum, growth, speed, sel, target_k, state_new, xaxis, anim>>

NextRecon == CallReconstruct

SpecRecon == InitRecon /\ [][NextRecon]_vars

ReconNk == Size(state[0])

ReconNt == Size(state[0][0])

\* C4: for every index outside [0, Nk), negative ones included, reconstruct
\* fails (with an IndexError) and returns no field.
C4_OutOfRangeFails ==
    (pc = "reconstructed" /\ (kidx < 0 \/ kidx >= ReconNk)) => prof.status # "ok"

\* C5: whenever state and basis differ in the length of their leading axis,
\* a length of 1 included, reconstruct fails (with a ShapeError) and returns
\* no field (stated for an index in [0, Nk), where nothing else fails).
C5_MismatchFails ==
    (pc = "reconstructed" /\ 0 <= kidx /\ kidx < ReconNk /\ Size(state) # Size(basis)) =>
        prof.status # "ok"

\* C6: for an index in [0, Nk) and equal Nv_ext the field has shape
\* (Nv_ext, Nz, Nx, Nt) and the element (v, z, x, t) is
\* basis[v,z] * inverse_transform[x,kidx] * state[v,kidx,t], nothing summed
\* over v; with a basis and an inverse-transform column of ones every (z, x)
\* holds the time series state[v,kidx,:].
C6_OuterProduct ==
    (pc = "reconstructed" /\ 0 <= kidx /\ kidx < ReconNk /\ Size(state) = Size(basis)) =>
        /\ prof.status = "ok"
        /\ DOMAIN prof.value = DOMAIN state
        /\ \A v \in DOMAIN state :
             /\ DOMAIN prof.value[v] = DOMAIN basis[v]
             /\ \A z \in DOMAIN basis[v] :
                  /\ DOMAIN prof.value[v][z] = DOMAIN invmat
                  /\ \A x \in DOMAIN invmat :
                       /\ DOMAIN prof.value[v][z][x] = Idx(ReconNt)
                       /\ \A t \in Idx(ReconNt) :
                            prof.value[v][z][x][t] =
                                CMul(CMul(CReal(basis[v][z]), invmat[x][kidx]),
                                     state[v][kidx][t])
                       /\ ( /\ \A w \in DOMAIN basis : \A y \in DOMAIN basis[w] :
                                  basis[w][y] = 1
                            /\ \A y \in DOMAIN invmat : invmat[y][kidx] = <<1, 0>> )
                          => prof.value[v][z][x] = state[v][kidx]

\* the time series 1, 2, 3 of one variable reconstructed with ones
C6_Witness ==
    /\ pc = "reconstructed" /\ kidx = 0 /\ Size(state) = 1 /\ Size(basis) = 1
    /\ state[0][0] = (0 :> <<1, 0>> @@ 1 :> <<2, 0>> @@ 2 :> <<3, 0>>)
    /\ basis[0][0] = 1 /\ invmat[0][0] = <<1, 0>>
    /\ Size(basis[0]) = 2 /\ Size(invmat) = 2
    /\ prof.status = "ok"
    /\ prof.value[0][1][1] = state[0][0]

\* C7: a call of reconstruct, returning or failing, leaves state, basis and
\* inverse_transform as they were, and a call with the index of the call
\* before it has the same outcome.
C7_PureFunction ==
    [][pc' = "reconstructed" =>
          /\ state' = state /\ basis' = basis /\ invmat' = invmat
          /\ (pc = "reconstructed" /\ kidx' = kidx) => prof' = prof]_vars

\* reconstruct has returned the field of two variables at the second
\* wavenumber, from a complex inverse transform
C7_Witness ==
    /\ pc = "reconstructed" /\ prof.status = "ok" /\ kidx = 1
    /\ Size(state) = 2 /\ Size(basis) = 2 /\ Im(invmat[0][1]) # 0

(***************************************************************************)
(* make_all.main, one step per section of the script.  A section that      *)
(* raises ends the run: nothing in main catches an exception.  The sines   *)
(* of the vertical basis are replaced by polynomials with the same zeros   *)
(* and signs, z (H - z) and z (H - z) (H - 2 z) on the levels 0 .. H, and  *)
(* basis values are in units of 1 / 10000 so that the factor 0.0033 is     *)
(* exact.  The contour levels and the rendering itself are not modelled.   *)
(***************************************************************************)
x_limit == 4320000

ThermalNum == 33

ThermalDen == 10000

\* the number of levels of np.linspace( 0.0, 14000.0, 141 ), here
Levels == MaxNz + 2

\* G1, G2
BasisG(row, z) ==
    LET H == Levels - 1
    IN  IF row = 0 THEN ThermalDen * z * (H - z)
        ELSE ThermalDen * z * (H - z) * (H - 2 * z)

\* basis_v = np.concatenate( [ basis_G, basis_T, basis_T ], axis=0 ) with
\* basis_T = basis_G * 0.0033
basis_v ==
    [r \in Idx(6) |-> [z \in Idx(Levels) |->
        IF r < 2 THEN BasisG(r, z)
        ELSE (ThermalNum * BasisG(r % 2, z)) \div ThermalDen]]

\* x_mask = np.logical_and( x>=-4320000, x<=4320000 )
XMask(xs) == [i \in DOMAIN xs |-> xs[i] >= -x_limit /\ xs[i] <= x_limit]

\* a[ mask, : ]: the rows of a where mask holds, in order
Compress(a, mask) ==
    LET kept == {i \in DOMAIN mask : mask[i]}
    IN  [j \in Idx(Cardinality(kept)) |->
            a[CHOOSE i \in kept : Cardinality({h \in kept : h < i}) = j]]

\* inv_mat_lim
InvMatLim(inv, xs) == Compress(inv, XMask(xs))

\* profile[ a ] + profile[ b ]
AddProfiles(A, B) ==
    [z \in DOMAIN A |-> [h \in DOMAIN A[z] |-> [t \in DOMAIN A[z][h] |->
        CAdd(A[z][h][t], B[z][h][t])]]]

\* w, T, J as handed to Plot.plot_animation
CombineFields(profile) ==
    [w |-> AddProfiles(profile[0], profile[1]),
     T |-> AddProfiles(profile[2], profile[3]),
     J |-> AddProfiles(profile[4], profile[5])]

\* where main is after a section whose statements had the outcome r: an
\* exception propagates out of main
AfterSwallowed(stage, r) == stage

After(stage, r) == IF r.status = "ok" THEN stage ELSE "failed"

\* a name bound by a section that did not complete is unbound
Unbound == Raise("NameError")

StateValAt(i) == IF i = 0 THEN <<20, 0>> ELSE IF i = 1 THEN <<0, 20>> ELSE <<-20, 40>>

MainVars == {2, Nv, Nv + 1}

MainOpDims == {2, Nv}

InitMain ==
    /\ pc = "loaded"
    /\ \E Nk \in 0 .. MaxNk :
         /\ \E nv \in MainVars : \E Nt \in {1, MaxNt} : \E r \in 0 .. 2 :
              state = ModalState(nv, Nk, Nt, [v \in Idx(nv) |-> StateValAt((v + r) % 3)])
         /\ \E n \in MainOpDims : \E b \in ImCoefs :
              optrs = DiagOperator(n, Nk, [j \in Idx(Nk) |-> 1], [j \in Idx(Nk) |-> b])
         /\ \E k0 \in {0, 1} : wnum = [j \in Idx(Nk) |-> k0 + j]
         /\ \E ones \in BOOLEAN : invmat = CodedInverse(MaxNx + 2, Nk, ones)
    /\ xaxis = [i \in Idx(MaxNx + 2) |-> (i - 1) * x_limit]
    /\ target_k \in TargetVals
    /\ growth = NoResult /\ speed = NoResult /\ sel = NoResult
    /\ state_new = NoResult /\ kidx = NoResult /\ prof = NoResult
    /\ anim = NoResult
    /\ basis = Idle

\* σ = Diagnostics.modal_growth_rate( optrs, wnum )
MainGrowthRate ==
    /\ pc = "loaded"
    /\ LET r == modal_growth_rate(optrs, wnum)
       IN  growth' = r /\ pc' = After("growth", r)
    /\ UNCHANGED <<optrs, wnum, speed, sel, target_k, kidx, state, state_new,
                   basis, invmat, prof, xaxis, anim>>

\* c = Diagnostics.phase_speed( optrs, wnum )
MainPhaseSpeed ==
    /\ pc = "growth"
    /\ LET r == phase_speed(optrs, wnum)
       IN  speed' = r /\ pc' = After("speed", r)
    /\ UNCHANGED <<optrs, wnum, growth, sel, target_k, kidx, state, state_new,
                   basis, invmat, prof, xaxis, anim>>

\* Plot.plot_diagnostics( σ, c, wnum, ... )
MainPlotDiagnostics ==
    /\ pc = "speed"
    /\ LET r == IF growth.status = "ok" /\ speed.status = "ok"
                THEN Ok(plot_diagnostics(growth.value, speed.value))
                ELSE Unbound
       IN  sel' = r /\ pc' = After("plotted", r)
    /\ UNCHANGED <<optrs, wnum, growth, speed, target_k, kidx, state, state_new,
                   basis, invmat, prof, xaxis, anim>>

\* state_J and basis_v
MainStateJ ==
    /\ pc = "plotted"
    /\ LET r == make_all_state_J(state)
       IN  /\ state_new' = r
           /\ pc' = After("state_J", r)
           /\ basis' = IF r.status = "ok" THEN basis_v ELSE basis
    /\ UNCHANGED <<optrs, wnum, growth, speed, sel, target_k, kidx, state,
                   invmat, prof, xaxis, anim>>

\* kidx = np.argmin( np.abs( target_k - wnum ) )
MainSelectKidx ==
    /\ pc = "state_J"
    /\ LET r == select_kidx(target_k, wnum)
       IN  kidx' = r /\ pc' = After("kidx", r)
    /\ UNCHANGED <<optrs, wnum, growth, speed, sel, target_k, state, state_new,
                   basis, invmat, prof, xaxis, anim>>

\* inv_mat_lim, FourierBasis, pcs, profile
MainReconstruct ==
    /\ pc = "kidx"
    /\ LET r == IF kidx.status = "ok" /\ state_new.status = "ok"
                THEN reconstruct(kidx.value, state, basis, InvMatLim(invmat, xaxis)).prof
                ELSE Unbound
       IN  prof' = r /\ pc' = After("reconstructed", r)
    /\ UNCHANGED <<optrs, wnum, growth, speed, sel, target_k, kidx, state,
                   state_new, basis, invmat, xaxis, anim>>

\* w, T, J and Plot.plot_animation( ..., J, T, w, ... )
MainAnimation ==
    /\ pc = "reconstructed"
    /\ LET r == IF prof.status = "ok" THEN Ok(CombineFields(prof.value)) ELSE Unbound
       IN  anim' = r /\ pc' = After("animated", r)
    /\ UNCHANGED <<optrs, wnum, growth, speed, sel, target_k, kidx, state,
                   state_new, basis, invmat, prof, xaxis>>

NextMain ==
    \/ MainGrowthRate
    \/ MainPhaseSpeed
    \/ MainPlotDiagnostics
    \/ MainStateJ
    \/ MainSelectKidx
    \/ MainReconstruct
    \/ MainAnimation

SpecMain == InitMain /\ [][NextMain]_vars

\* a section has raised
Done(r) == r.status = "ok"

Raised(r) == r.status \notin {"none", "ok"}

Failed ==
    \/ Raised(growth) \/ Raised(speed) \/ Raised(sel) \/ Raised(state_new)
    \/ Raised(kidx) \/ Raised(prof) \/ Raised(anim)

\* C12: in every run the diagnostics come first, then the wavenumber
\* selection, then the reconstruction, then the animation; a stage runs once,
\* only after the stages before it have completed, and after a stage has
\* failed nothing runs any more.
C12_StageOrder ==
    [][ /\ ~Failed
        /\ (growth' # growth \/ speed' # speed) =>
               kidx = NoResult /\ prof = NoResult /\ anim = NoResult
        /\ kidx' # kidx =>
               Done(growth) /\ Done(speed) /\ prof = NoResult /\ anim = NoResult
        /\ prof' # prof => Done(growth) /\ Done(speed) /\ Done(kidx) /\ anim = NoResult
        /\ anim' # anim => Done(growth) /\ Done(speed) /\ Done(kidx) /\ Done(prof)
        /\ growth # NoResult => growth' = growth
        /\ speed # NoResult => speed' = speed
        /\ kidx # NoResult => kidx' = kidx
        /\ prof # NoResult => prof' = prof
        /\ anim # NoResult => anim' = anim ]_vars

\* a run that has gone through every stage
C12_Witness ==
    /\ pc = "animated"
    /\ Done(growth) /\ Done(speed) /\ Done(kidx) /\ Done(prof) /\ Done(anim)
    /\ Size(wnum) = 2 /\ kidx.value = 1

\* C13: the heating field J handed to the animation is the sum of the
\* reconstructed profiles of the derived variables J1 and J2 of state_J,
\* each multiplied by a vertical basis row of its own (whichever rows of
\* basis_v those are), not of the raw state variables 4 and 5.
C13_HeatingFromDerived ==
    pc = "animated" =>
        LET lim == InvMatLim(invmat, xaxis)
            c == kidx.value
            J1 == state_new.value[Size(state)][c]
            J2 == state_new.value[Size(state) + 1][c]
            J == anim.value.J
        IN  \E r1 \in DOMAIN basis : \E r2 \in DOMAIN basis :
              \A z \in DOMAIN J : \A h \in DOMAIN J[z] : \A t \in DOMAIN J[z][h] :
                J[z][h][t] =
                    CAdd(CMul(CReal(basis[r1][z]), CMul(lim[h][c], J1[t])),
                         CMul(CReal(basis[r2][z]), CMul(lim[h][c], J2[t])))

====
